---- MODULE Spec2Model ----
(***************************************************************************)
(* A model of commute.py, a commute planner: the construction of a         *)
(* CommuteGraph from the lines of a document, the route priority order,    *)
(* the promotion of flex routes, the two-mode depth-first search of        *)
(* find_path, taken one step of the generators at a time, and the report   *)
(* that the program prints of the itineraries found.                       *)
(*                                                                         *)
(* Clock times (datetime.time) are minutes since midnight, 0..DayMinutes-1;*)
(* durations (datetime.timedelta) are minutes.  A location is a string.    *)
(***************************************************************************)
EXTENDS Integers, Sequences, FiniteSets, TLC

\* ------------------------------------------------------------------------
\* Bounds of the model
\* ------------------------------------------------------------------------

\* The longest list of route lines after the header line of a document.
MaxRoutes == 3

\* The longest list of route lines of a document whose header names the
\* same location as start and as destination.
MaxRoundTrip == 2

\* The longest document of the structural family (headers, comments, routes
\* in any order).
MaxLines == 3

\* ------------------------------------------------------------------------
\* Values
\* ------------------------------------------------------------------------

\* Minutes in a day: (datetime.combine(today, t) + delta).time() drops the
\* date, so clock arithmetic wraps at midnight.
DayMinutes == 1440

\* Python's None, for a time of day that was not supplied.
NoneTs == -1

\* A local variable that was never assigned (reading it raises).
Unbound == 0

\* The messages of the exceptions the program raises.
RoutesBeforeHeader == "Routes appearing before header"
MissingHeader == "Missing header line"
DuplicateHeader == "Duplicate header"
UnexpectedEntry == "Unexpected entry type"
InvalidTimeOrder == "Start time must be before dest time!"
NeitherAnchor == "Neither begin_ts nor end_ts were set!"
BothAnchors == "Both begin_ts and end_ts were set!"
UnboundLocalError == "UnboundLocalError"
NoErr == ""

Header(s, d) == [kind |-> "Header", start |-> s, dest |-> d]

FlexRoute(s, d, dur) ==
    [kind |-> "FlexRoute", start |-> s, dest |-> d, duration |-> dur]

\* A value raised instead of returned.
Raise(msg) == [kind |-> "Raise", msg |-> msg]

Raised(v) == v.kind = "Raise"

\* The constructor without its test of the two times.
TimedRouteUnchecked(s, st, d, dt) ==
    [kind |-> "TimedRoute", start |-> s, start_time |-> st,
     dest |-> d, dest_time |-> dt]

\* TimedRoute.__init__: the constructor raises unless start_time < dest_time.
TimedRoute(s, st, d, dt) ==
    IF st >= dt
    THEN Raise(InvalidTimeOrder)
    ELSE [kind |-> "TimedRoute", start |-> s, start_time |-> st,
          dest |-> d, dest_time |-> dt]

IsRoute(e) == e.kind \in {"FlexRoute", "TimedRoute"}

\* datetime.combine(today, t) + delta, then .time()
AddMinutes(t, delta) == (t + delta) % DayMinutes

\* datetime.combine(today, t) - delta, then .time()
SubMinutes(t, delta) == (t - delta) % DayMinutes

\* promote with the anchors confused: begin_ts taken as the end of the
\* route and end_ts as its start.
promote_AnchorsSwapped(self, begin_ts, end_ts) ==
    IF begin_ts = NoneTs /\ end_ts = NoneTs THEN Raise(NeitherAnchor)
    ELSE IF begin_ts # NoneTs /\ end_ts # NoneTs THEN Raise(BothAnchors)
    ELSE IF begin_ts # NoneTs
    THEN TimedRoute(self.start, SubMinutes(begin_ts, self.duration),
                    self.dest, begin_ts)
    ELSE TimedRoute(self.start, end_ts, self.dest,
                    AddMinutes(end_ts, self.duration))

\* FlexRoute.promote
promote(self, begin_ts, end_ts) ==
    IF begin_ts = NoneTs /\ end_ts = NoneTs THEN Raise(NeitherAnchor)
    ELSE IF begin_ts # NoneTs /\ end_ts # NoneTs THEN Raise(BothAnchors)
    ELSE IF begin_ts # NoneTs
    THEN TimedRoute(self.start, begin_ts, self.dest,
                    AddMinutes(begin_ts, self.duration))
    ELSE TimedRoute(self.start, SubMinutes(end_ts, self.duration),
                    self.dest, end_ts)

\* ------------------------------------------------------------------------
\* Route priority
\* ------------------------------------------------------------------------

\* The order of Python's str comparison on the location names of the model.
LocOrder == <<"a", "b", "busstop", "c", "d", "home", "legislature", "macewan">>

LocRank(l) == CHOOSE i \in 1..Len(LocOrder) : LocOrder[i] = l

StrLt(x, y) == LocRank(x) < LocRank(y)

\* route_le with the flex routes compared the other way round: the longer
\* duration first.
route_le_LongerFlexFirst(a, b) ==
    IF a.kind = "FlexRoute" /\ b.kind = "FlexRoute" THEN a.duration > b.duration
    ELSE IF a.kind = "FlexRoute" /\ b.kind = "TimedRoute" THEN TRUE
    ELSE IF a.kind = "TimedRoute" /\ b.kind = "FlexRoute" THEN FALSE
    ELSE StrLt(a.start, b.start)

\* route_le(a, b)
route_le(a, b) ==
    IF a.kind = "FlexRoute" /\ b.kind = "FlexRoute" THEN a.duration < b.duration
    ELSE IF a.kind = "FlexRoute" /\ b.kind = "TimedRoute" THEN TRUE
    ELSE IF a.kind = "TimedRoute" /\ b.kind = "FlexRoute" THEN FALSE
    ELSE StrLt(a.start, b.start)

\* FlexRoute.__eq__ and TimedRoute.__eq__
RouteEq(a, b) ==
    /\ a.kind = b.kind
    /\ a.start = b.start
    /\ a.dest = b.dest
    /\ IF a.kind = "FlexRoute"
       THEN a.duration = b.duration
       ELSE a.start_time = b.start_time /\ a.dest_time = b.dest_time

\* __lt__ as functools.total_ordering derives it from __le__ and __ne__
RouteLt(a, b) == route_le(a, b) /\ ~RouteEq(a, b)

\* One insertion of list.sort: x moves left past every element it is less than.
RECURSIVE InsertSorted(_, _)
InsertSorted(s, x) ==
    IF s = <<>> THEN <<x>>
    ELSE IF RouteLt(x, s[Len(s)])
         THEN Append(InsertSorted(SubSeq(s, 1, Len(s) - 1), x), s[Len(s)])
         ELSE Append(s, x)

\* list.sort(): a stable sort by __lt__
RECURSIVE SortRoutes(_)
SortRoutes(s) ==
    IF s = <<>> THEN <<>>
    ELSE InsertSorted(SortRoutes(SubSeq(s, 1, Len(s) - 1)), s[Len(s)])

\* ------------------------------------------------------------------------
\* Input lines and parsing
\* ------------------------------------------------------------------------

\* The lines of a document, by the production of the grammar they match.
HeaderLine(s, d) == [line |-> "header", start |-> s, dest |-> d]

FlexLine(s, d, dur) == [line |-> "f", start |-> s, dest |-> d, duration |-> dur]

TimedLine(s, st, d, dt) ==
    [line |-> "t", start |-> s, start_time |-> st, dest |-> d, dest_time |-> dt]

CommentLine == [line |-> "#"]

BlankLine == [line |-> " "]

\* What parse returns for a comment or a blank line.
None == [kind |-> "None"]

\* parse(line)
parse(l) ==
    IF l.line = "f" THEN FlexRoute(l.start, l.dest, l.duration)
    ELSE IF l.line = "t" THEN TimedRoute(l.start, l.start_time, l.dest, l.dest_time)
    ELSE IF l.line = "header" THEN Header(l.start, l.dest)
    ELSE None

\* ------------------------------------------------------------------------
\* CommuteGraph.__init__
\* ------------------------------------------------------------------------

\* self.edges = defaultdict(list)
EmptyEdges == [k \in {} |-> <<>>]

\* self.edges[k] of a defaultdict: a missing key is created with an empty list.
Touch(edges, k) == IF k \in DOMAIN edges THEN edges ELSE edges @@ (k :> <<>>)

\* The scan, were it to pass over the routes before the header.
RECURSIVE ScanHeaderSkippingRoutes(_, _)
ScanHeaderSkippingRoutes(entries, i) ==
    IF i > Len(entries) THEN [i |-> i - 1, err |-> NoErr]
    ELSE IF entries[i].kind = "Header" THEN [i |-> i, err |-> NoErr]
    ELSE ScanHeaderSkippingRoutes(entries, i + 1)

\* "Scan ahead until we find the header": the value of i when the loop ends
\* (by break, by running out, or by the raise), and the message raised if any.
RECURSIVE ScanHeader(_, _)
ScanHeader(entries, i) ==
    IF i > Len(entries) THEN [i |-> i - 1, err |-> NoErr]
    ELSE IF entries[i].kind = "Header" THEN [i |-> i, err |-> NoErr]
    ELSE IF IsRoute(entries[i]) THEN [i |-> i, err |-> RoutesBeforeHeader]
    ELSE ScanHeader(entries, i + 1)

\* "Build the graph": the entries from position j on, appended to the
\* adjacency lists in input order.
RECURSIVE AddEntries(_, _, _)
AddEntries(entries, j, edges) ==
    IF j > Len(entries) THEN [err |-> NoErr, edges |-> edges]
    ELSE LET e == entries[j] IN
         IF IsRoute(e)
         THEN AddEntries(entries, j + 1,
                         [Touch(edges, e.start) EXCEPT ![e.start] = Append(@, e)])
         ELSE IF e.kind = "Header"
         THEN [err |-> DuplicateHeader, edges |-> edges]
         ELSE [err |-> UnexpectedEntry, edges |-> edges]

\* "Lastly, sort the routes according to priority."
SortEdges(edges) == [k \in DOMAIN edges |-> SortRoutes(edges[k])]

\* A constructor that raised returns no object.
NoGraph(msg) == [err |-> msg, start |-> "", dest |-> "", edges |-> EmptyEdges]

\* CommuteGraph(lines): the graph built, or the message of the exception.
CommuteGraph(lines) ==
    LET parsed == [n \in 1..Len(lines) |-> parse(lines[n])]
        bad == {n \in 1..Len(lines) : Raised(parsed[n])}
        notNone(e) == e.kind # "None"
        entries == SelectSeq(parsed, notNone)
        scan == ScanHeader(entries, 1)
        i == scan.i
        built == AddEntries(entries, i + 1, EmptyEdges)
    IN  IF bad # {}
        THEN NoGraph(parsed[CHOOSE n \in bad : \A m \in bad : n <= m].msg)
        ELSE IF scan.err # NoErr THEN NoGraph(scan.err)
        ELSE IF i = Unbound THEN NoGraph(UnboundLocalError)
        ELSE IF i = Len(entries) + 1 THEN NoGraph(MissingHeader)
        ELSE IF built.err # NoErr THEN NoGraph(built.err)
        ELSE [err |-> NoErr, start |-> entries[i].start, dest |-> entries[i].dest,
              edges |-> SortEdges(built.edges)]

\* ------------------------------------------------------------------------
\* Documents
\* ------------------------------------------------------------------------

\* The locations of the generated documents.
Locs == {"a", "b", "c"}

Hops == {<<x, y>> \in Locs \X Locs : x # y}

\* Departure and arrival times of timed routes: 0:10-7:00 and 7:00-7:20,
\* and for the chains also 7:00-23:30.
Slots == {<<10, 420>>, <<420, 440>>}

ChainSlots == Slots \cup {<<420, 1410>>}

\* Durations of flex routes: 20 minutes, and for the chains also none.
Durations == {20}

ChainDurations == Durations \cup {0}

RouteLines ==
    {FlexLine(h[1], h[2], d) : h \in Hops, d \in Durations}
    \cup {TimedLine(h[1], t[1], h[2], t[2]) : h \in Hops, t \in Slots}

\* A header line followed by up to MaxRoutes route lines over three
\* locations, searched from a to b.
IsSearchDoc(doc) ==
    \E k \in 0..MaxRoutes : \E r \in [1..k -> RouteLines] :
        doc = <<HeaderLine("a", "b")>> \o r

\* The same with up to MaxRoundTrip route lines, searched from a to a.
IsRoundTripDoc(doc) ==
    \E k \in 0..MaxRoundTrip : \E r \in [1..k -> RouteLines] :
        doc = <<HeaderLine("a", "a")>> \o r

\* The route lines from x to y that a chain may use.
Legs(x, y) ==
    {FlexLine(x, y, d) : d \in ChainDurations}
    \cup {TimedLine(x, t[1], y, t[2]) : t \in ChainSlots}

\* A line of four locations, a -> b -> c -> d, searched from a to d.
ChainDocs ==
    {<<HeaderLine("a", "d"), r1, r2, r3>> :
        r1 \in Legs("a", "b"), r2 \in Legs("b", "c"), r3 \in Legs("c", "d")}

\* Headers, comments, blank lines and routes in any order, and a timed line
\* whose times are out of order.
StructLines ==
    {HeaderLine("a", "b"), CommentLine, BlankLine,
     FlexLine("a", "b", 20), FlexLine("a", "b", 5),
     TimedLine("a", 420, "b", 440), TimedLine("a", 10, "b", 420),
     TimedLine("a", 440, "b", 420)}

IsStructDoc(doc) == \E k \in 0..MaxLines : doc \in [1..k -> StructLines]

\* The document of DocumentParsing in commute_test.py.
TestDoc ==
    << CommentLine,
       HeaderLine("home", "macewan"),
       FlexLine("home", "busstop", 5),
       TimedLine("busstop", 420, "legislature", 455),
       TimedLine("busstop", 435, "legislature", 470),
       FlexLine("legislature", "macewan", 15) >>


\* ------------------------------------------------------------------------
\* State
\* ------------------------------------------------------------------------

VARIABLES
    lines,      \* lines = list(fileinput.input()): the document read
    pc,         \* "start", "init" (the lines are read), "failed" (the constructor raised), "built",
                \* "searching", "done" (find_path exhausted), "error" (it raised),
                \* "reporting" (the loop of prints), "reported" (it ended),
                \* "crashed" (the report raised)
    err,        \* the message of the exception raised, if any
    start,      \* g.start
    dest,       \* g.dest
    edges,      \* g.edges: location -> list of routes
    stack,      \* the active generators of find_path, outermost first
    yielded,    \* the itineraries find_path has yielded, in order
    trails,     \* for each itinerary yielded, the edges of the graph it took
    routes,     \* sorted(list(g.find_path(...)), key=route_len): the itineraries to print
    printed,    \* the lines printed so far
    call,       \* a call of FlexRoute.promote on its own: self, begin_ts, end_ts
    returned    \* what that call returned or raised

vars == <<lines, pc, err, start, dest, edges, stack, yielded, trails,
          routes, printed, call, returned>>

\* A generator of dfs_unconstrained (mode "U") or dfs_constrained (mode "C"):
\* its arguments, the position idx of its loop over self.edges[curr], and
\* where it stands: "enter" (before the test of curr == dest), "visit"
\* (before the test of curr not in seen) or "loop".  ts is the local
\* variable, floor the value it was called with.  trail is the list of
\* <<location, position>> of the graph edges that acc was made from.
Frame(mode, curr, seen, acc, ts, trail) ==
    [mode |-> mode, curr |-> curr, seen |-> seen, acc |-> acc, ts |-> ts,
     floor |-> ts, trail |-> trail, idx |-> 1, at |-> "enter"]

Top == stack[Len(stack)]

Pop == SubSeq(stack, 1, Len(stack) - 1)

\* new_seen = seen.copy(); new_seen.add(curr)
NewSeen(f) == f.seen \cup {f.curr}

\* The caller's loop moves on to its next edge and the callee is entered.
Call(callee) ==
    stack' = Append([stack EXCEPT ![Len(stack)].idx = @ + 1], callee)

Init ==
    /\ lines = <<>>
    /\ pc = "start"
    /\ err = NoErr
    /\ start = ""
    /\ dest = ""
    /\ edges = EmptyEdges
    /\ stack = <<>>
    /\ yielded = <<>>
    /\ trails = <<>>
    /\ routes = <<>>
    /\ printed = <<>>
    /\ call = None
    /\ returned = None

\* lines = list(fileinput.input()): a document is read.
ReadLines ==
    /\ pc = "start"
    /\ \/ IsSearchDoc(lines')
       \/ IsRoundTripDoc(lines')
       \/ lines' \in ChainDocs
       \/ IsStructDoc(lines')
       \/ lines' = TestDoc
    /\ pc' = "init"
    /\ UNCHANGED <<err, start, dest, edges, stack, yielded, trails,
                   routes, printed, call, returned>>

\* g = CommuteGraph(lines)
Build ==
    /\ pc = "init"
    /\ LET g == CommuteGraph(lines) IN
       /\ pc' = IF g.err = NoErr THEN "built" ELSE "failed"
       /\ err' = g.err
       /\ start' = g.start
       /\ dest' = g.dest
       /\ edges' = g.edges
    /\ UNCHANGED <<lines, stack, yielded, trails,
                   routes, printed, call, returned>>

\* g.find_path(g.start, g.dest): the outermost dfs_unconstrained.
FindPath ==
    /\ pc = "built"
    /\ pc' = "searching"
    /\ stack' = <<Frame("U", start, {}, <<>>, NoneTs, <<>>)>>
    /\ UNCHANGED <<lines, err, start, dest, edges, yielded, trails,
                   routes, printed, call, returned>>

\* The same step, were acc yielded at every location and not at dest alone.
YieldWithoutDestTest ==
    /\ pc = "searching" /\ stack # <<>>
    /\ Top.at = "enter"
    /\ yielded' = Append(yielded, Top.acc)
    /\ trails' = Append(trails, Top.trail)
    /\ stack' = [stack EXCEPT ![Len(stack)].at = "visit"]
    /\ UNCHANGED <<lines, pc, err, start, dest, edges,
                   routes, printed, call, returned>>

\* if curr == dest: yield acc
Yield ==
    /\ pc = "searching" /\ stack # <<>>
    /\ Top.at = "enter"
    /\ Top.curr = dest
    /\ yielded' = Append(yielded, Top.acc)
    /\ trails' = Append(trails, Top.trail)
    /\ stack' = [stack EXCEPT ![Len(stack)].at = "visit"]
    /\ UNCHANGED <<lines, pc, err, start, dest, edges,
                   routes, printed, call, returned>>

\* The same step, were the test of curr not in seen left out.
VisitWithoutSeenTest ==
    /\ pc = "searching" /\ stack # <<>>
    /\ Top.at = "visit" \/ (Top.at = "enter" /\ Top.curr # dest)
    /\ stack' = [stack EXCEPT ![Len(stack)].at = "loop"]
    /\ edges' = Touch(edges, Top.curr)
    /\ UNCHANGED <<lines, pc, err, start, dest, yielded, trails,
                   routes, printed, call, returned>>

\* if curr not in seen: for e in self.edges[curr]
\* A location seen before ends the generator; otherwise the loop starts,
\* and the defaultdict creates the key curr if it is missing.
Visit ==
    /\ pc = "searching" /\ stack # <<>>
    /\ Top.at = "visit" \/ (Top.at = "enter" /\ Top.curr # dest)
    /\ IF Top.curr \in Top.seen
       THEN /\ stack' = Pop
            /\ edges' = edges
       ELSE /\ stack' = [stack EXCEPT ![Len(stack)].at = "loop"]
            /\ edges' = Touch(edges, Top.curr)
    /\ UNCHANGED <<lines, pc, err, start, dest, yielded, trails,
                   routes, printed, call, returned>>

\* The edge the loop of the innermost generator is at.
AtEdge ==
    /\ pc = "searching" /\ stack # <<>>
    /\ Top.at = "loop"
    /\ Top.idx <= Len(edges[Top.curr])

Edge == edges[Top.curr][Top.idx]

Hop == <<Top.curr, Top.idx>>

\* dfs_unconstrained, a FlexRoute: recurse with the route appended.
FlexUnconstrained ==
    /\ AtEdge /\ Top.mode = "U"
    /\ Edge.kind = "FlexRoute"
    /\ Call(Frame("U", Edge.dest, NewSeen(Top), Append(Top.acc, Edge), NoneTs,
                  Append(Top.trail, Hop)))
    /\ UNCHANGED <<lines, pc, err, start, dest, edges, yielded, trails,
                   routes, printed, call, returned>>

\* The same loop, were every flex route promoted to end at the start_time of
\* the timed route instead of at the start of the leg after it.
PromoteAllToOneEnd(acc, i, ts, new_acc) ==
    [kind |-> "List",
     list |-> [n \in 1..Len(acc) |->
                  [kind |-> "TimedRoute", start |-> acc[n].start,
                   start_time |-> SubMinutes(ts, acc[n].duration),
                   dest |-> acc[n].dest, dest_time |-> ts]]]

\* The loop of dfs_unconstrained over reversed(range(len(acc))): the flex
\* routes of acc promoted from the last to the first, each ending when the
\* one after it starts.  The new accumulator, or the exception raised.
RECURSIVE PromoteAll(_, _, _, _)
PromoteAll(acc, i, ts, new_acc) ==
    IF i = 0 THEN [kind |-> "List", list |-> new_acc]
    ELSE IF acc[i].kind = "FlexRoute"
         THEN LET promoted == promote(acc[i], NoneTs, ts) IN
              IF Raised(promoted) THEN promoted
              ELSE PromoteAll(acc, i - 1, promoted.start_time, <<promoted>> \o new_acc)
         ELSE PromoteAll(acc, i - 1, ts, new_acc)

\* The exception propagates out of every generator to the consumer.
Throw(msg) ==
    /\ pc' = "error"
    /\ err' = msg
    /\ stack' = <<>>

\* dfs_unconstrained, a TimedRoute: promote the accumulated flex routes
\* backward from its start_time and continue in dfs_constrained.
TimedUnconstrained ==
    /\ AtEdge /\ Top.mode = "U"
    /\ Edge.kind = "TimedRoute"
    /\ LET new_acc == PromoteAll(Top.acc, Len(Top.acc), Edge.start_time, <<>>) IN
       IF Raised(new_acc)
       THEN Throw(new_acc.msg)
       ELSE /\ Call(Frame("C", Edge.dest, NewSeen(Top), Append(new_acc.list, Edge),
                          Edge.dest_time, Append(Top.trail, Hop)))
            /\ UNCHANGED <<pc, err>>
    /\ UNCHANGED <<lines, start, dest, edges, yielded, trails,
                   routes, printed, call, returned>>

\* dfs_constrained, a TimedRoute with e.dest_time >= ts: recurse.
TimedConstrained ==
    /\ AtEdge /\ Top.mode = "C"
    /\ Edge.kind = "TimedRoute" /\ Edge.dest_time >= Top.ts
    /\ Call(Frame("C", Edge.dest, NewSeen(Top), Append(Top.acc, Edge),
                  Edge.dest_time, Append(Top.trail, Hop)))
    /\ UNCHANGED <<lines, pc, err, start, dest, edges, yielded, trails,
                   routes, printed, call, returned>>

\* dfs_constrained, a TimedRoute with e.dest_time < ts: neither branch.
TimedSkipped ==
    /\ AtEdge /\ Top.mode = "C"
    /\ Edge.kind = "TimedRoute" /\ ~(Edge.dest_time >= Top.ts)
    /\ stack' = [stack EXCEPT ![Len(stack)].idx = @ + 1]
    /\ UNCHANGED <<lines, pc, err, start, dest, edges, yielded, trails,
                   routes, printed, call, returned>>

\* dfs_constrained, a FlexRoute: ts is advanced by the duration (the
\* generator's own ts, which its later edges read), the route is promoted
\* from the advanced ts, and the recursion gets the advanced ts.
FlexConstrained ==
    /\ AtEdge /\ Top.mode = "C"
    /\ Edge.kind = "FlexRoute"
    /\ LET ts == AddMinutes(Top.ts, Edge.duration)
           e == promote(Edge, ts, NoneTs)
       IN  IF Raised(e)
           THEN Throw(e.msg)
           ELSE /\ stack' = Append([stack EXCEPT ![Len(stack)].idx = @ + 1,
                                                 ![Len(stack)].ts = ts],
                                   Frame("C", e.dest, NewSeen(Top), Append(Top.acc, e),
                                         ts, Append(Top.trail, Hop)))
                /\ UNCHANGED <<pc, err>>
    /\ UNCHANGED <<lines, start, dest, edges, yielded, trails,
                   routes, printed, call, returned>>

\* The loop over self.edges[curr] is over: the generator ends.
Return ==
    /\ pc = "searching" /\ stack # <<>>
    /\ Top.at = "loop"
    /\ Top.idx > Len(edges[Top.curr])
    /\ stack' = Pop
    /\ UNCHANGED <<lines, pc, err, start, dest, edges, yielded, trails,
                   routes, printed, call, returned>>

\* The outermost generator has ended: find_path is exhausted.
Exhausted ==
    /\ pc = "searching" /\ stack = <<>>
    /\ pc' = "done"
    /\ UNCHANGED <<lines, err, start, dest, edges, stack, yielded, trails,
                   routes, printed, call, returned>>

\* The exceptions Python raises in the report.
AttributeError == "'FlexRoute' object has no attribute 'dest_time'"
IndexError == "list index out of range"

\* A number returned (where the function may raise instead).
Returned(n) == [kind |-> "int", value |-> n]

\* route_len(l): 0 for the empty list, else the seconds from the start_time
\* of l[-0], the first leg, to the dest_time of l[-1], the last one.  A
\* FlexRoute has neither attribute; timedelta.seconds is never negative.
route_len(l) ==
    IF Len(l) = 0 THEN Returned(0)
    ELSE IF l[Len(l)].kind # "TimedRoute" \/ l[1].kind # "TimedRoute"
         THEN Raise(AttributeError)
         ELSE Returned(((l[Len(l)].dest_time - l[1].start_time) % DayMinutes) * 60)

\* One insertion of sorted(..., key=route_len): stable, by the key.
RECURSIVE InsertByLen(_, _)
InsertByLen(s, x) ==
    IF s = <<>> THEN <<x>>
    ELSE IF route_len(x).value < route_len(s[Len(s)]).value
         THEN Append(InsertByLen(SubSeq(s, 1, Len(s) - 1), x), s[Len(s)])
         ELSE Append(s, x)

RECURSIVE SortByLen(_)
SortByLen(s) ==
    IF s = <<>> THEN <<>>
    ELSE InsertByLen(SortByLen(SubSeq(s, 1, Len(s) - 1)), s[Len(s)])

\* The report stops on an exception.
Crash(msg) ==
    /\ pc' = "crashed"
    /\ err' = msg

\* sorted(list(g.find_path(g.start, g.dest)), key=route_len): the key of
\* every itinerary is computed, then the list is sorted.
SortFound ==
    /\ pc = "done"
    /\ IF \E k \in 1..Len(yielded) : Raised(route_len(yielded[k]))
       THEN /\ Crash(AttributeError)
            /\ routes' = routes
       ELSE /\ pc' = "reporting"
            /\ routes' = SortByLen(yielded)
            /\ err' = err
    /\ UNCHANGED <<lines, start, dest, edges, stack, yielded, trails,
                   printed, call, returned>>

\* vs = " -> ".join([v.dest for v in route])
JoinDests(route) == [i \in 1..Len(route) |-> route[i].dest]

\* One turn of the loop: dt, vs, and the line printed with route[0].start_time.
PrintRoute ==
    /\ pc = "reporting"
    /\ Len(printed) < Len(routes)
    /\ LET route == routes[Len(printed) + 1]
           dt == route_len(route)
       IN  IF Raised(dt)
           THEN /\ Crash(dt.msg)
                /\ printed' = printed
           ELSE IF Len(route) = 0
           THEN /\ Crash(IndexError)
                /\ printed' = printed
           ELSE /\ printed' = Append(printed, [dt |-> dt.value,
                                               start_time |-> route[1].start_time,
                                               vs |-> JoinDests(route)])
                /\ UNCHANGED <<pc, err>>
    /\ UNCHANGED <<lines, start, dest, edges, stack, yielded, trails,
                   routes, call, returned>>

\* The loop over the sorted itineraries is over: the program ends.
ReportEnds ==
    /\ pc = "reporting"
    /\ Len(printed) = Len(routes)
    /\ pc' = "reported"
    /\ UNCHANGED <<lines, err, start, dest, edges, stack, yielded, trails,
                   routes, printed, call, returned>>

Next ==
    \/ ReadLines
    \/ Build
    \/ FindPath
    \/ Yield
    \/ Visit
    \/ FlexUnconstrained
    \/ TimedUnconstrained
    \/ TimedConstrained
    \/ TimedSkipped
    \/ FlexConstrained
    \/ Return
    \/ Exhausted
    \/ SortFound
    \/ PrintRoute
    \/ ReportEnds

Spec == Init /\ [][Next]_vars

\* A step of the generators of find_path.
Drawn ==
    \/ Yield
    \/ Visit
    \/ FlexUnconstrained
    \/ TimedUnconstrained
    \/ TimedConstrained
    \/ TimedSkipped
    \/ FlexConstrained
    \/ Return
    \/ Exhausted

\* list(g.find_path(g.start, g.dest)): the consumer keeps drawing from the
\* generator until it is exhausted or raises.
FairSpec == Spec /\ WF_vars(Drawn)

\* ------------------------------------------------------------------------
\* find_path as a function of the graph
\* ------------------------------------------------------------------------

\* self.edges[curr]: no routes for a location that is not a key.
RoutesAt(E, curr) == IF curr \in DOMAIN E THEN E[curr] ELSE <<>>

\* What a generator gives when drawn to its end: the itineraries it yields,
\* in order, and the exception that ends it, if one does.
Gives(out, msg) == [out |-> out, err |-> msg]

\* The itineraries of one recursion, then those of the rest of the loop,
\* unless the recursion raised.
Then(r, rest) ==
    IF r.err # NoErr THEN r ELSE Gives(r.out \o rest.out, rest.err)

\* dfs_unconstrained (mode "U") and dfs_constrained (mode "C"), and the loop
\* of either over self.edges[curr] from position idx on, with the value of
\* the local ts at that position.
RECURSIVE dfs(_, _, _, _, _, _, _)
RECURSIVE dfs_loop(_, _, _, _, _, _, _, _)
dfs(E, dst, mode, curr, seen, acc, ts) ==
    LET here == IF curr = dst THEN <<acc>> ELSE <<>> IN
    IF curr \in seen THEN Gives(here, NoErr)
    ELSE LET r == dfs_loop(E, dst, mode, curr, seen \cup {curr}, acc, ts, 1) IN
         Gives(here \o r.out, r.err)

dfs_loop(E, dst, mode, curr, new_seen, acc, ts, idx) ==
    IF idx > Len(RoutesAt(E, curr)) THEN Gives(<<>>, NoErr)
    ELSE
    LET e == RoutesAt(E, curr)[idx]
        rest(t) == dfs_loop(E, dst, mode, curr, new_seen, acc, t, idx + 1)
    IN
    IF mode = "U" /\ e.kind = "FlexRoute"
    THEN Then(dfs(E, dst, "U", e.dest, new_seen, Append(acc, e), NoneTs), rest(ts))
    ELSE IF mode = "U"
    THEN LET new_acc == PromoteAll(acc, Len(acc), e.start_time, <<>>) IN
         IF Raised(new_acc) THEN Gives(<<>>, new_acc.msg)
         ELSE Then(dfs(E, dst, "C", e.dest, new_seen, Append(new_acc.list, e),
                       e.dest_time),
                   rest(ts))
    ELSE IF e.kind = "TimedRoute"
    THEN IF e.dest_time >= ts
         THEN Then(dfs(E, dst, "C", e.dest, new_seen, Append(acc, e), e.dest_time),
                   rest(ts))
         ELSE rest(ts)
    ELSE LET later == AddMinutes(ts, e.duration)
             p == promote(e, later, NoneTs)
         IN  IF Raised(p) THEN Gives(<<>>, p.msg)
             ELSE Then(dfs(E, dst, "C", p.dest, new_seen, Append(acc, p), later),
                       rest(later))

\* list(CommuteGraph(doc).find_path(g.start, g.dest)) for a document that
\* builds a graph.
find_path(doc) ==
    LET g == CommuteGraph(doc) IN
    dfs(g.edges, g.dest, "U", g.start, {}, <<>>, NoneTs)

\* ------------------------------------------------------------------------
\* FlexRoute.promote on its own
\* ------------------------------------------------------------------------

\* The durations and the clock times of the calls: zero, a few minutes, and
\* more than a day; midnight, the morning, and the last minutes of the day.
PromoteDurations == {0, 5, 15, 20, 1500}

PromoteTimes == {0, 10, 420, 720, 1425, 1439}

\* self.promote(begin_ts=t), self.promote(end_ts=t), and the two misuses.
PromoteCalls ==
    {[self |-> FlexRoute(h[1], h[2], dur), begin_ts |-> ts[1], end_ts |-> ts[2]] :
        h \in Hops, dur \in PromoteDurations,
        ts \in ({NoneTs} \X PromoteTimes) \cup (PromoteTimes \X {NoneTs})
               \cup {<<NoneTs, NoneTs>>, <<720, 720>>}}

PromoteInit ==
    /\ call \in PromoteCalls
    /\ returned = None
    /\ lines = <<>>
    /\ pc = "start"
    /\ err = NoErr
    /\ start = ""
    /\ dest = ""
    /\ edges = EmptyEdges
    /\ stack = <<>>
    /\ yielded = <<>>
    /\ trails = <<>>
    /\ routes = <<>>
    /\ printed = <<>>

\* The call is made: a TimedRoute is returned, or an exception raised.
Promote ==
    /\ call # None
    /\ returned = None
    /\ returned' = promote(call.self, call.begin_ts, call.end_ts)
    /\ UNCHANGED <<lines, pc, err, start, dest, edges, stack, yielded, trails,
                   routes, printed, call>>

PromoteNext == Promote

PromoteSpec == PromoteInit /\ [][PromoteNext]_vars

\* ------------------------------------------------------------------------
\* Properties
\* ------------------------------------------------------------------------

\* The route of the graph at a hop <<location, position>> of a trail.
GraphEdge(h) == edges[h[1]][h[2]]

\* The positions of the itineraries yielded so far.
Found == 1..Len(yielded)

\* C1: in every itinerary yielded, a TimedRoute of the graph that follows
\* another leg departs no earlier than that leg arrives.
C1_TimedDepartsAfterArrival ==
    \A k \in Found : \A i \in 2..Len(yielded[k]) :
        GraphEdge(trails[k][i]).kind = "TimedRoute"
            => yielded[k][i].start_time >= yielded[k][i - 1].dest_time

\* The locations of an itinerary found from s: s, then the dest of each leg.
Stops(s, acc) == <<s>> \o [i \in 1..Len(acc) |-> acc[i].dest]

NoRepeat(q) == \A i, j \in 1..Len(q) : i # j => q[i] # q[j]

\* C3: every itinerary yielded is a simple path: no location occurs twice
\* among the start and the dests of its legs.
C3_SimplePath == \A k \in Found : NoRepeat(Stops(start, yielded[k]))

\* C5: on a graph that was built, the search never ends in an error.
C5_SearchNeverRaises == pc # "error"

\* C6: in every itinerary yielded that has a timed leg, the dest_time of a
\* leg is never earlier than the dest_time of the leg before it.
C6_ClockNeverGoesBack ==
    \A k \in Found :
        (\E i \in 1..Len(yielded[k]) : yielded[k][i].kind = "TimedRoute")
            => \A i \in 1..Len(yielded[k]) - 1 :
                   yielded[k][i + 1].dest_time >= yielded[k][i].dest_time

\* The routes leaving a location: none if the graph has no such key.
Outgoing(l) == IF l \in DOMAIN edges THEN edges[l] ELSE <<>>

\* The floor time after taking route e with floor time floor (NoneTs before
\* the first timed route): the dest_time of a timed route, the floor time
\* plus the duration for a flex route.
FloorAfter(e, floor) ==
    IF e.kind = "TimedRoute" THEN e.dest_time
    ELSE IF floor = NoneTs THEN NoneTs
    ELSE AddMinutes(floor, e.duration)

\* The floor rule: a timed route met with a floor time must arrive no
\* earlier than it.
Usable(e, floor) ==
    e.kind = "TimedRoute" /\ floor # NoneTs => e.dest_time >= floor

\* The trails of the simple paths from curr to dest that avoid the locations
\* of seen and whose timed routes each satisfy the floor rule, each path
\* prefixed by trail.
RECURSIVE SimplePaths(_, _, _, _)
SimplePaths(curr, seen, floor, trail) ==
    IF curr = dest THEN {trail}
    ELSE UNION {
        LET e == Outgoing(curr)[i] IN
        IF e.dest \notin seen \cup {curr} /\ Usable(e, floor)
        THEN SimplePaths(e.dest, seen \cup {curr}, FloorAfter(e, floor),
                         Append(trail, <<curr, i>>))
        ELSE {} : i \in 1..Len(Outgoing(curr)) }

TimesYielded(p) == Cardinality({k \in Found : trails[k] = p})

\* C2: once find_path is exhausted, every simple path from start to dest
\* whose timed routes satisfy the floor rule has been yielded exactly once;
\* and the search of the test document yields exactly two itineraries.
C2_Complete ==
    pc = "done" =>
        /\ \A p \in SimplePaths(start, {}, NoneTs, <<>>) : TimesYielded(p) = 1
        /\ lines = TestDoc => Len(yielded) = 2

\* The locations that a route leaving l leads to.
Successors(l) == {Outgoing(l)[i].dest : i \in 1..Len(Outgoing(l))}

\* The locations of the graph and of the search.
Locations ==
    {start, dest} \cup DOMAIN edges \cup UNION {Successors(k) : k \in DOMAIN edges}

BranchBounded ==
    \A n \in 1..Len(stack) :
        /\ stack[n].at = "loop" => stack[n].curr \notin stack[n].seen
        /\ Len(stack[n].acc) <= Cardinality(Locations)

\* C4: find_path terminates: no generator loops over the routes of a
\* location already seen on its branch, no branch accumulates more legs
\* than there are locations, and every search started comes to an end.
C4_Terminates ==
    /\ []BranchBounded
    /\ (pc = "searching") ~> (pc \in {"done", "error"})

\* A branch of at least two legs has come back to the start of the search,
\* and its generator is about to end there.
C4_Witness ==
    /\ pc = "searching"
    /\ \E n \in 1..Len(stack) :
        /\ stack[n].curr = start
        /\ start \in stack[n].seen
        /\ Len(stack[n].acc) >= 2

\* The locations that can be reached from those of S by routes of the graph.
RECURSIVE ReachableFrom(_)
ReachableFrom(S) ==
    LET T == S \cup UNION {Successors(l) : l \in S}
    IN  IF T = S THEN S ELSE ReachableFrom(T)

\* C7: if dest cannot be reached from start by routes of the graph, the
\* search yields no itinerary and does not end in an error.
C7_UnreachableYieldsNothing ==
    (pc \in {"searching", "done", "error"} /\ start # dest
        /\ dest \notin ReachableFrom({start}))
        => (yielded = <<>> /\ pc # "error")

\* The lines of the document that are not comments or blank lines.
IsEntryLine(l) == l.line \in {"header", "f", "t"}

EntryLines == SelectSeq(lines, IsEntryLine)

IsRouteLine(l) == l.line \in {"f", "t"}

\* Every route line would construct its route.
AllParse == \A n \in 1..Len(lines) : ~Raised(parse(lines[n]))

Constructed == pc \notin {"start", "init", "failed"}

\* C8: a document without any header or route line (only comments and
\* blank lines, or nothing) fails with the MissingHeader error, and no graph
\* is built.
C8_MissingHeaderReported ==
    (pc \notin {"start", "init"} /\ EntryLines = <<>>) => (pc = "failed" /\ err = MissingHeader)

\* The position of the first header among the entries, or 0.
FirstHeader ==
    IF \E n \in 1..Len(EntryLines) : EntryLines[n].line = "header"
    THEN CHOOSE n \in 1..Len(EntryLines) :
            /\ EntryLines[n].line = "header"
            /\ \A m \in 1..(n - 1) : EntryLines[m].line # "header"
    ELSE 0

RouteBeforeHeader ==
    \E n \in 1..Len(EntryLines) :
        /\ IsRouteLine(EntryLines[n])
        /\ \A m \in 1..(n - 1) : EntryLines[m].line # "header"

SecondHeader ==
    /\ FirstHeader # 0
    /\ \E n \in (FirstHeader + 1)..Len(EntryLines) : EntryLines[n].line = "header"

OneHeaderThenRoutes ==
    /\ Len(EntryLines) >= 1
    /\ EntryLines[1].line = "header"
    /\ \A n \in 2..Len(EntryLines) : IsRouteLine(EntryLines[n])

\* C9: when every line parses, construction reports the first structural
\* rule violated and returns no graph: a route before the first header is
\* RoutesBeforeHeader (whatever follows), otherwise a header after the first
\* is DuplicateHeader; construction succeeds exactly when the entries are
\* one header followed only by routes.
C9_FirstViolationReported ==
    (pc \notin {"start", "init"} /\ AllParse) =>
        /\ RouteBeforeHeader => (pc = "failed" /\ err = RoutesBeforeHeader)
        /\ (~RouteBeforeHeader /\ SecondHeader)
               => (pc = "failed" /\ err = DuplicateHeader)
        /\ Constructed <=> OneHeaderThenRoutes
        /\ ~Constructed => (edges = EmptyEdges /\ start = "" /\ dest = "")

\* A document with a route between two headers was refused as a duplicate
\* header, and one with a route before its header as routes before header.
C9_Witness ==
    /\ pc = "failed" /\ err = DuplicateHeader
    /\ Len(EntryLines) = 3
    /\ IsRouteLine(EntryLines[2])

\* C10: in every adjacency list of a constructed graph, a TimedRoute never
\* comes after a TimedRoute with a strictly later start_time.
C10_TimedByStartTime ==
    Constructed =>
        \A k \in DOMAIN edges : \A i, j \in 1..Len(edges[k]) :
            (i < j /\ edges[k][i].kind = "TimedRoute" /\ edges[k][j].kind = "TimedRoute")
                => ~(edges[k][j].start_time < edges[k][i].start_time)

\* The routes of the document in the order of their lines, and those that
\* leave location k.
ParsedRoutes ==
    LET rs == SelectSeq(lines, IsRouteLine) IN [i \in 1..Len(rs) |-> parse(rs[i])]

InputFrom(k) == SelectSeq(ParsedRoutes, LAMBDA e : e.start = k)

\* Two routes the priority order does not tell apart: flex routes of the
\* same duration, timed routes of the same start_time.
SamePriority(a, b) ==
    /\ a.kind = b.kind
    /\ IF a.kind = "FlexRoute" THEN a.duration = b.duration
       ELSE a.start_time = b.start_time

\* C11: in a graph that was built, in the list of every location, every
\* FlexRoute comes before every TimedRoute, the FlexRoutes are in
\* non-decreasing order of duration, the routes of equal priority are in the
\* order of their lines in the document, and sorting the list again changes
\* nothing.
C11_SortedByPriority ==
    Constructed =>
        \A k \in DOMAIN edges :
            LET L == edges[k] IN
            /\ \A i, j \in 1..Len(L) :
                   i < j => /\ ~(L[i].kind = "TimedRoute" /\ L[j].kind = "FlexRoute")
                            /\ (L[i].kind = "FlexRoute" /\ L[j].kind = "FlexRoute"
                                   => L[i].duration <= L[j].duration)
            /\ Len(L) = Len(InputFrom(k))
            /\ \A i \in 1..Len(L) :
                   SelectSeq(L, LAMBDA e : SamePriority(e, L[i]))
                       = SelectSeq(InputFrom(k), LAMBDA e : SamePriority(e, L[i]))
            /\ SortRoutes(L) = L

\* A graph was built whose sort moved a flex route before a timed route
\* and kept two different routes of equal priority in the order of their lines.
C11_Witness ==
    /\ pc = "built"
    /\ \E k \in DOMAIN edges :
           LET L == edges[k] IN
           /\ L # InputFrom(k)
           /\ \E i, j \in 1..Len(L) :
                  i < j /\ L[i] # L[j] /\ SamePriority(L[i], L[j])
           /\ \E i, j \in 1..Len(L) :
                  L[i].kind = "FlexRoute" /\ L[j].kind = "TimedRoute"

\* The call of promote was made with begin_ts alone, or with end_ts alone.
FromBegin == call # None /\ returned # None /\ call.begin_ts # NoneTs /\ call.end_ts = NoneTs

FromEnd == call # None /\ returned # None /\ call.begin_ts = NoneTs /\ call.end_ts # NoneTs

\* The TimedRoute from st to dt between the locations of the route promoted.
IsPromotion(st, dt) ==
    /\ returned.kind = "TimedRoute"
    /\ returned.start = call.self.start
    /\ returned.dest = call.self.dest
    /\ returned.start_time = st
    /\ returned.dest_time = dt

\* C12: for every FlexRoute r and every clock time t, promote(r, begin_ts=t)
\* returns a TimedRoute with the start and dest of r, start_time t and
\* dest_time - t equal to the duration of r; promote(r, end_ts=t) returns one
\* with dest_time t and t - start_time equal to the duration of r.
C12_PromotionRoundTrip ==
    /\ FromBegin =>
           /\ IsPromotion(call.begin_ts, returned.dest_time)
           /\ returned.dest_time - call.begin_ts = call.self.duration
    /\ FromEnd =>
           /\ IsPromotion(returned.start_time, call.end_ts)
           /\ call.end_ts - returned.start_time = call.self.duration

\* C12, amended: for every FlexRoute r of a duration d under a day and every
\* clock time t, promote(r, begin_ts=t) returns that TimedRoute from t to
\* t + d when d > 0 and t + d is before midnight, and promote(r, end_ts=t)
\* returns that TimedRoute from t - d to t when d > 0 and t - d is not before
\* 0:00; in every other case the call raises InvalidTimeOrder.
C12_PromotionRoundTripWithinTheDay ==
    LET d == call.self.duration IN
    /\ FromBegin /\ d < DayMinutes =>
           IF d > 0 /\ call.begin_ts + d < DayMinutes
           THEN IsPromotion(call.begin_ts, call.begin_ts + d)
           ELSE returned = Raise(InvalidTimeOrder)
    /\ FromEnd /\ d < DayMinutes =>
           IF d > 0 /\ call.end_ts - d >= 0
           THEN IsPromotion(call.end_ts - d, call.end_ts)
           ELSE returned = Raise(InvalidTimeOrder)

\* A flex route of some minutes was promoted from its begin_ts and a
\* TimedRoute was returned.
C12_Witness ==
    /\ FromBegin
    /\ call.self.duration > 0
    /\ returned.kind = "TimedRoute"

\* C13: once find_path has come to its end, the report succeeds: the time
\* of every itinerary found is computed and one line is printed for each,
\* whether it is empty, made of flex routes only, or has timed legs.
C13_ReportSucceeds ==
    /\ pc # "crashed"
    /\ pc = "reported" =>
           /\ Len(printed) = Len(yielded)
           /\ \A k \in 1..Len(yielded) :
                  \E n \in 1..Len(printed) :
                      /\ printed[n].vs = JoinDests(yielded[k])
                      /\ printed[n].dt = route_len(yielded[k]).value

\* C14: when dfs_constrained, holding the floor time F, takes a FlexRoute
\* of duration d, the leg appended is the route promoted to start at F and
\* to arrive at F + d, and the search goes on with the floor time F + d.
C14_FlexPromotedFromFloor ==
    [][FlexConstrained /\ pc' = "searching" =>
          LET F == Top.ts
              d == Edge.duration
              callee == stack'[Len(stack')]
              leg == callee.acc[Len(callee.acc)]
          IN  /\ leg.start_time = F
              /\ leg.dest_time = F + d
              /\ callee.floor = F + d]_vars

C16_SiblingsIsolated ==
    \A n \in 1..Len(stack) :
        stack[n].mode = "C" =>
            /\ stack[n].at = "loop" /\ stack[n].idx <= Len(edges[stack[n].curr])
                   => stack[n].ts = stack[n].floor
            /\ n < Len(stack) =>
                   /\ stack[n + 1].seen = NewSeen(stack[n])
                   /\ SubSeq(stack[n + 1].acc, 1, Len(stack[n].acc)) = stack[n].acc
                   /\ Len(stack[n + 1].acc) = Len(stack[n].acc) + 1

\* C17: find_path leaves the graph as the constructor made it: while it
\* runs and after it has ended or raised, the map of routes has the same
\* locations as keys and, under each, the same routes in the same order.
C17_SearchKeepsGraph ==
    Constructed /\ pc # "built" =>
        LET g == CommuteGraph(lines) IN
        /\ DOMAIN edges = DOMAIN g.edges
        /\ \A k \in DOMAIN g.edges : edges[k] = g.edges[k]

\* The leg is a route of the graph, or a flex route of the graph promoted.
IsLegOfGraph(leg) ==
    /\ leg.start \in DOMAIN edges
    /\ \E j \in 1..Len(edges[leg.start]) :
           LET e == edges[leg.start][j] IN
           \/ e = leg
           \/ /\ e.kind = "FlexRoute" /\ leg.kind = "TimedRoute"
              /\ e.start = leg.start /\ e.dest = leg.dest

\* C18: every itinerary yielded is a path of the graph from start to dest:
\* its first leg leaves start, its last leg arrives at dest, every leg
\* arrives where the next one leaves, every leg is a route of the graph or
\* the promotion of one of its flex routes with the same start and dest,
\* and the empty itinerary is yielded only when start is dest.
C18_ContiguousPath ==
    \A k \in Found :
        LET p == yielded[k] IN
        /\ Len(p) = 0 => start = dest
        /\ Len(p) > 0 => p[1].start = start /\ p[Len(p)].dest = dest
        /\ \A i \in 1..Len(p) - 1 : p[i].dest = p[i + 1].start
        /\ \A i \in 1..Len(p) : IsLegOfGraph(p[i])

\* An itinerary of three legs or more was yielded, with a flex route
\* promoted and a timed route of the graph among them.
C18_Witness ==
    \E k \in Found :
        /\ Len(yielded[k]) >= 3
        /\ \E i \in 1..Len(yielded[k]) :
               GraphEdge(trails[k][i]).kind = "FlexRoute" /\ yielded[k][i].kind = "TimedRoute"
        /\ \E i \in 1..Len(yielded[k]) : GraphEdge(trails[k][i]) = yielded[k][i]

\* The generators taken step by step give what find_path gives as a function.
StepsAgreeWithFindPath ==
    /\ pc = "done" => find_path(lines) = Gives(yielded, NoErr)
    /\ pc = "error" => find_path(lines) = Gives(yielded, err)

\* The documents with the lines of doc, its route lines in another order.
Reordered(doc) ==
    {[i \in 1..Len(doc) |-> doc[f[i]]] : f \in
        {g \in Permutations(1..Len(doc)) :
            \A i \in 1..Len(doc) : ~IsRouteLine(doc[i]) => g[i] = i}}

ItinerarySet(out) == {out[n] : n \in 1..Len(out)}

\* C19: the set of itineraries found does not depend on the order of the
\* route lines: a document with the same header and the same route lines in
\* another order gives the same itineraries, leg for leg and time for time.
C19_OrderIndependent ==
    pc = "done" =>
        \A doc \in Reordered(lines) :
            find_path(doc).err = NoErr
                => ItinerarySet(find_path(doc).out) = ItinerarySet(yielded)

\* Every TimedRoute of the list departs strictly before it arrives.
DepartBeforeArrive(l) ==
    \A i \in 1..Len(l) :
        l[i].kind = "TimedRoute" => l[i].start_time < l[i].dest_time

\* No leg of acc is the promotion of a flex route of no duration.
NoneFromZero(acc, trail) ==
    \A i \in 1..Len(acc) :
        GraphEdge(trail[i]).kind = "FlexRoute" /\ acc[i].kind = "TimedRoute"
            => GraphEdge(trail[i]).duration > 0

\* A timed line whose start_time is not before its dest_time.
BadTimedLine ==
    \E n \in 1..Len(lines) :
        lines[n].line = "t" /\ lines[n].start_time >= lines[n].dest_time

\* C20: every TimedRoute of a graph, of an accumulated path or of an
\* itinerary yielded, parsed or promoted, has start_time < dest_time,
\* strictly; a document with a timed line that has not makes the constructor
\* fail with InvalidTimeOrder; no flex route of zero duration is ever
\* promoted, and a search that fails fails with InvalidTimeOrder.
C20_StartBeforeDest ==
    /\ \A k \in DOMAIN edges : DepartBeforeArrive(edges[k])
    /\ \A n \in 1..Len(stack) :
           DepartBeforeArrive(stack[n].acc) /\ NoneFromZero(stack[n].acc, stack[n].trail)
    /\ \A k \in Found :
           DepartBeforeArrive(yielded[k]) /\ NoneFromZero(yielded[k], trails[k])
    /\ BadTimedLine /\ pc \notin {"start", "init"}
           => pc = "failed" /\ err = InvalidTimeOrder
    /\ pc = "error" => err = InvalidTimeOrder

\* A graph with a timed route was built from a document whose flex routes
\* all have the duration zero, and the search failed.
C20_Witness ==
    /\ pc = "error"
    /\ err = InvalidTimeOrder
    /\ \E k \in DOMAIN edges : \E i \in 1..Len(edges[k]) : edges[k][i].kind = "TimedRoute"
    /\ \E n \in 1..Len(lines) : lines[n].line = "f"
    /\ \A n \in 1..Len(lines) : lines[n].line = "f" => lines[n].duration = 0


====
